---- MODULE Spec2Model ----
(***************************************************************************)
(* Ticket orchestration engine of amida-dlh-ai-agent-dev.                  *)
(*                                                                         *)
(* The persistent ticket table, the audit log and the Celery job queue are *)
(* the shared state.  Every `await` on the database in                     *)
(* backend/app/tasks/ai_orchestrator.py is a point where other workers and *)
(* request handlers interleave, so one job run is a sequence of actions,   *)
(* one per database round trip.  A commit writes the columns the run       *)
(* assigned since its previous commit (SQLAlchemy issues UPDATE for the    *)
(* assigned attributes only), never the whole row.                         *)
(***************************************************************************)
EXTENDS Integers, Sequences, FiniteSets, TLC

\* ---------------------------------------------------------------- bounds
MaxTickets == 1
MaxJobs == 2
MaxUsers == 2
MaxSockets == 2

TicketIds == 1..MaxTickets
JobIds == 1..MaxJobs
UserIds == 1..MaxUsers
\* the WebSocket objects the server is handed, one per client connection
WebSockets == 1..MaxSockets
\* user_id = None, the default of send_ticket_update
NoUser == 0

\* ------------------------------------------------------------ enumerations
PENDING == "pending"
PROCESSING == "processing"
COMPLETED == "completed"
FAILED == "failed"
CANCELLED == "cancelled"
TicketStatus == {PENDING, PROCESSING, COMPLETED, FAILED, CANCELLED}

PR_REVIEW == "pr_review"
DOC_ANALYSIS == "doc_analysis"
PAPER_WRITING == "paper_writing"
SNOWFLAKE_QUERY == "snowflake_query"
CUSTOM == "custom"
TaskType == {PR_REVIEW, DOC_ANALYSIS, PAPER_WRITING, SNOWFLAKE_QUERY, CUSTOM}

\* SQL NULL / Python None in a nullable column
NULL == "NULL"
\* the value datetime.utcnow() stores
UTCNOW == "utcnow"
\* the empty JSON object, a dict being modelled by its set of keys
EmptyDict == {}
\* JSON null in a dict column (Python None), set apart from every set of keys
NoneDict == {NULL}

\* ai_client.model_name (settings.AZURE_OPENAI_DEPLOYMENT_NAME), the model
\* process_snowflake_query reports, and response.usage.total_tokens of a
\* completion
MODEL_NAME == "AZURE_OPENAI_DEPLOYMENT_NAME"
MCP_SNOWFLAKE == "MCP Snowflake"
TOTAL_TOKENS == 1

\* str(e) of the exceptions a run can see.  The text of an exception raised
\* by an external collaborator is chosen by that collaborator and may be the
\* empty string.
MSG_PR_URL == "PR URL is required for PR review task"
MSG_QUERY == "Query request is required for Snowflake task"
MSG_UNKNOWN == "Unknown task type"
MSG_ATTRIBUTE == "'NoneType' object has no attribute 'get'"
MSG_NOT_FOUND == "Ticket not found"
MSG_DB == "database error"
MSG_CLIENT == "client construction error"
MSG_CAPABILITY == "capability error"
MSG_EMPTY == ""
CapabilityMessages == {MSG_CAPABILITY, MSG_EMPTY}

VARIABLES tickets, audit_logs, jobs

\* The ConnectionManager `manager` of the API process: its two dicts, the
\* position of every websocket_endpoint coroutine, the send operation in
\* progress, and the ticket ids whose ticket_update was handed to the manager
\* addressed to a user.
VARIABLES active_connections, websocket_users, endpoints, call, ticket_updates

\* What the stretch of websocket_endpoint that just ran received and sent.
VARIABLE personal

corevars == <<tickets, audit_logs, jobs>>
wsvars ==
    <<active_connections, websocket_users, endpoints, call, ticket_updates,
      personal>>
vars ==
    <<tickets, audit_logs, jobs,
      active_connections, websocket_users, endpoints, call, ticket_updates,
      personal>>

\* ------------------------------------------------------------ ticket rows
\* Column defaults of the Ticket model; `exists` is FALSE for an id that has
\* no row, `deleted` is TRUE for an id whose row was deleted (the primary
\* key is never handed out again).
\* task_data and result_data are JSON objects, modelled by their sets of keys.
NoTicket ==
    [exists |-> FALSE, deleted |-> FALSE,
     task_type |-> CUSTOM, task_data |-> EmptyDict,
     status |-> PENDING, result_data |-> EmptyDict, error_message |-> NULL,
     completed_at |-> NULL, ai_model_used |-> NULL, tokens_used |-> 0]

\* a row inserted with status PROCESSING and a result payload
NewTicket_processing(kind, data) ==
    [exists |-> TRUE, deleted |-> FALSE,
     task_type |-> kind, task_data |-> data,
     status |-> PROCESSING, result_data |-> {"task_result"},
     error_message |-> NULL, completed_at |-> NULL,
     ai_model_used |-> NULL, tokens_used |-> 0]

NewTicket(kind, data) ==
    [exists |-> TRUE, deleted |-> FALSE,
     task_type |-> kind, task_data |-> data,
     status |-> PENDING, result_data |-> EmptyDict, error_message |-> NULL,
     completed_at |-> NULL, ai_model_used |-> NULL, tokens_used |-> 0]

\* What is left of a row after DELETE.  The kind and the payload stay in the
\* record because a run that loaded the row goes on reading them from its
\* session.
DeletedTicket(ticket) ==
    [NewTicket(ticket.task_type, ticket.task_data)
        EXCEPT !.exists = FALSE, !.deleted = TRUE]

\* The task_data payloads a request may carry for a kind: with or without
\* the key the kind's handler insists on.
TaskData(kind) ==
    CASE kind = PR_REVIEW -> {EmptyDict, {"pr_url"}}
      [] kind = SNOWFLAKE_QUERY -> {EmptyDict, {"query_request"}}
      [] OTHER -> {EmptyDict}

\* ------------------------------------------------------------------- jobs
\* One record per Celery message.  pc is the position of the worker that
\* runs it; err is str(e) of the exception in flight (the one the task
\* raised to Celery, once it has ended); result is the handler's return
\* value; found says db.get returned a row; outcome says whether the task
\* returned or raised to Celery.  committed, stored and invoked record
\* what the run itself did: the last status it committed, the last error
\* text it stored, the handlers it called in the order of the calls, and
\* whether a handler of it called a capability client.  task_data is the
\* payload db.get read: the handlers read the run's ticket object, never the
\* row again.  model_used and tokens_used are the values of these keys in
\* the handler's return value.
FreeJob ==
    [pc |-> "free", ticket_id |-> 1, origin |-> "none", err |-> NULL,
     result |-> EmptyDict, found |-> FALSE, outcome |-> "none",
     committed |-> "none", stored |-> NULL, invoked |-> <<>>,
     called |-> FALSE, task_data |-> EmptyDict,
     model_used |-> NULL, tokens_used |-> 0]

FreeJobs == {j \in JobIds : jobs[j].pc = "free"}

\* the slot process_ticket_task.delay() fills
NextJob == CHOOSE j \in FreeJobs : \A k \in FreeJobs : j <= k

delay(j, ticket_id, origin) ==
    [jobs EXCEPT ![j] = [FreeJob EXCEPT !.pc = "queued",
                                        !.ticket_id = ticket_id,
                                        !.origin = origin]]

\* ---------------------------------------------------- connection registry
\* A dict is a function whose domain is the set of its keys.
EmptyMap == [k \in {} |-> k]
Put(d, k, v) == [x \in DOMAIN d \cup {k} |-> IF x = k THEN v ELSE d[x]]
Del(d, k) == [x \in DOMAIN d \ {k} |-> d[x]]

\* the two dicts of the manager
Registry ==
    [active_connections |-> active_connections,
     websocket_users |-> websocket_users]

\* register that fills active_connections only
register_forward_only(reg, websocket, user_id) ==
    LET sets == IF user_id \notin DOMAIN reg.active_connections
                THEN Put(reg.active_connections, user_id, {})
                ELSE reg.active_connections
    IN [reg EXCEPT !.active_connections =
                       Put(sets, user_id, sets[user_id] \cup {websocket})]

\* lines 29-33 of connect: the set of the user is created when the user has
\* none, the websocket is added to it and to the reverse dict
register(reg, websocket, user_id) ==
    LET sets == IF user_id \notin DOMAIN reg.active_connections
                THEN Put(reg.active_connections, user_id, {})
                ELSE reg.active_connections
    IN [active_connections |->
            Put(sets, user_id, sets[user_id] \cup {websocket}),
        websocket_users |-> Put(reg.websocket_users, websocket, user_id)]

\* disconnect that leaves the emptied set of the user in active_connections
disconnect_keeps_empty_set(reg, websocket) ==
    IF websocket \notin DOMAIN reg.websocket_users
    THEN reg
    ELSE LET user_id == reg.websocket_users[websocket]
         IN [active_connections |->
                 IF user_id \notin DOMAIN reg.active_connections
                 THEN reg.active_connections
                 ELSE Put(reg.active_connections, user_id,
                          reg.active_connections[user_id] \ {websocket}),
             websocket_users |-> Del(reg.websocket_users, websocket)]

\* disconnect that drops the websocket from the reverse dict only
disconnect_reverse_only(reg, websocket) ==
    [reg EXCEPT !.websocket_users = Del(reg.websocket_users, websocket)]

disconnect(reg, websocket) ==
    IF websocket \notin DOMAIN reg.websocket_users
    THEN reg
    ELSE LET user_id == reg.websocket_users[websocket]
             rest == reg.active_connections[user_id] \ {websocket}
         IN [active_connections |->
                 IF user_id \notin DOMAIN reg.active_connections
                 THEN reg.active_connections
                 ELSE IF rest = {}
                 THEN Del(reg.active_connections, user_id)
                 ELSE Put(reg.active_connections, user_id, rest),
             websocket_users |-> Del(reg.websocket_users, websocket)]

\* for websocket in disconnected_websockets: self.disconnect(websocket)
RECURSIVE disconnect_each(_, _)
disconnect_each(reg, websockets) ==
    IF websockets = {}
    THEN reg
    ELSE LET websocket == CHOOSE w \in websockets : TRUE
         IN disconnect_each(disconnect(reg, websocket),
                            websockets \ {websocket})

\* sum(len(websockets) for websockets in active_connections.values())
RECURSIVE total(_, _)
total(d, keys) ==
    IF keys = {}
    THEN 0
    ELSE LET k == CHOOSE x \in keys : TRUE
         IN Cardinality(d[k]) + total(d, keys \ {k})

get_connection_count(reg) ==
    total(reg.active_connections, DOMAIN reg.active_connections)

\* list(self.active_connections.keys()), as a set
get_connected_users(reg) == DOMAIN reg.active_connections

\* The send operation in progress.  op is the method, pc its position
\* ("send" while a send_text is awaited), todo the rest of the copy being
\* iterated, disconnected_websockets the list of the method.  For
\* broadcast_to_all, used is the size the dict iterator saw when it was
\* created and visited the keys it has yielded.  registered, attempts and
\* delivered record what the operation met and did: the websockets that were
\* registered when it started (of the addressed user, or of all users), the
\* number of send_text calls per websocket, and the websockets whose send_text
\* returned.
NoCall ==
    [op |-> "none", pc |-> "idle", message |-> NULL, user_id |-> NoUser,
     todo |-> {}, disconnected_websockets |-> {},
     used |-> 0, visited |-> {},
     registered |-> {}, attempts |-> [w \in WebSockets |-> 0],
     delivered |-> {}]

\* the message types the model tells apart
Messages == {"ticket_update", "processing_status"}

\* ------------------------------------------------------ personal messages
\* no websocket, no ticket id: None where a message or a record has none
NoWebSocket == 0
NoTicketId == 0

\* A JSON object that goes over a websocket, by the keys the manager reads
\* or writes; NULL, NoTicketId and NoUser stand for a key that is absent
\* (dict.get returns None).
Message(type) ==
    [type |-> type, message |-> NULL, timestamp |-> NULL,
     ticket_id |-> NoTicketId, user_id |-> NoUser]

\* What receive_text hands to the receive loop: text that is no JSON, JSON
\* that is no object, or a JSON object.  The objects are pings with and
\* without a timestamp, subscribe_ticket messages with and without a ticket
\* id, and a message of another type.
Timestamps == {NULL, "t"}
ClientMessages ==
    {[Message("ping") EXCEPT !.timestamp = ts] : ts \in Timestamps}
    \cup {[Message("subscribe_ticket") EXCEPT !.ticket_id = t] :
              t \in TicketIds \cup {NoTicketId}}
    \cup {Message("other")}
ClientData ==
    {[json |-> "invalid", message |-> Message(NULL)],
     [json |-> "not_object", message |-> Message(NULL)]}
    \cup {[json |-> "object", message |-> m] : m \in ClientMessages}
NoData == [json |-> "none", message |-> Message(NULL)]

\* The record of one stretch of websocket_endpoint: op is the stretch
\* ("websocket_endpoint" up to the receive loop, "receive_text" for one turn
\* of the loop), websocket its websocket, user_id the user the token
\* authenticated, request the data the turn received, sends the send_text
\* calls in their order, each with its websocket, its message and whether it
\* returned, and registered whether connect wrote the websocket into the
\* dicts.
NoPersonal ==
    [op |-> "none", websocket |-> NoWebSocket, user_id |-> NoUser,
     request |-> NoData, sends |-> <<>>, registered |-> FALSE]

Init ==
    /\ tickets = [t \in TicketIds |-> NoTicket]
    /\ audit_logs = <<>>
    /\ jobs = [j \in JobIds |-> FreeJob]
    /\ active_connections = EmptyMap
    /\ websocket_users = EmptyMap
    /\ endpoints = [w \in WebSockets |-> "new"]
    /\ call = NoCall
    /\ ticket_updates = {}
    /\ personal = NoPersonal

\* ------------------------------------------------------- request handlers
\* POST /tickets: the row gets the column defaults and one job is queued.
create_ticket(t, kind, data) ==
    /\ ~tickets[t].exists /\ ~tickets[t].deleted
    /\ \A u \in TicketIds : u < t => (tickets[u].exists \/ tickets[u].deleted)
    /\ FreeJobs # {}
    /\ tickets' = [tickets EXCEPT ![t] = NewTicket(kind, data)]
    /\ jobs' = delay(NextJob, t, "create_ticket")
    /\ UNCHANGED audit_logs
    /\ UNCHANGED wsvars

\* reprocess that resets the status and leaves error text and result payload
reprocess_ticket_keeps_payload(t) ==
    /\ tickets[t].exists
    /\ FreeJobs # {}
    /\ tickets' = [tickets EXCEPT ![t].status = PENDING]
    /\ jobs' = delay(NextJob, t, "reprocess_ticket")
    /\ UNCHANGED audit_logs
    /\ UNCHANGED wsvars

\* POST /tickets/{id}/reprocess: the only condition on the row is that it
\* exists (404 otherwise, which changes nothing).
reprocess_ticket(t) ==
    /\ tickets[t].exists
    /\ FreeJobs # {}
    /\ tickets' = [tickets EXCEPT ![t].status = PENDING,
                                  ![t].error_message = NULL,
                                  ![t].result_data = EmptyDict]
    /\ jobs' = delay(NextJob, t, "reprocess_ticket")
    /\ UNCHANGED audit_logs
    /\ UNCHANGED wsvars

\* PUT /tickets/{id} with a status in the body: setattr(ticket, "status", s).
\* A cancellation request is update_ticket(t, CANCELLED).
update_ticket(t, s) ==
    /\ tickets[t].exists
    /\ tickets[t].status # s
    /\ tickets' = [tickets EXCEPT ![t].status = s]
    /\ UNCHANGED <<audit_logs, jobs>>
    /\ UNCHANGED wsvars

\* PUT /tickets/{id} with task_data in the body:
\* setattr(ticket, "task_data", data).  TicketUpdate.task_data is
\* Optional[Dict], so the body may carry null as well as an object.
update_ticket_task_data(t, data) ==
    /\ tickets[t].exists
    /\ tickets[t].task_data # data
    /\ tickets' = [tickets EXCEPT ![t].task_data = data]
    /\ UNCHANGED <<audit_logs, jobs>>
    /\ UNCHANGED wsvars

\* DELETE /tickets/{id}.  The cascade of Ticket.audit_logs ("all,
\* delete-orphan") deletes the audit rows whose ticket_id column is the id
\* of the ticket.
delete_ticket(t) ==
    /\ tickets[t].exists
    /\ tickets' = [tickets EXCEPT ![t] = DeletedTicket(tickets[t])]
    /\ audit_logs' = SelectSeq(audit_logs, LAMBDA e : e.ticket_id # t)
    /\ UNCHANGED jobs
    /\ UNCHANGED wsvars

\* ------------------------------------------------------------ the job run
\* A commit of changes to a row that is gone updates nothing and raises
\* (the UPDATE matches no row).

\* log_audit_event that fills the ticket_id column as well
log_audit_event_with_ticket_id(action, entity_id, j) ==
    Append(audit_logs, [action |-> action, entity_id |-> entity_id,
                        ticket_id |-> entity_id, job |-> j])

\* log_audit_event gives the AuditLog row an action and an entity_id; the
\* ticket_id column is not among the arguments of the constructor and stays
\* NULL.  job names the run that wrote the row.
log_audit_event(action, entity_id, j) ==
    Append(audit_logs, [action |-> action, entity_id |-> entity_id,
                        ticket_id |-> NoTicketId, job |-> j])

goto(j, pc) == [jobs EXCEPT ![j].pc = pc]

\* an exception leaves process_ticket_async: the except clause of
\* process_ticket_task takes over with str(e)
raise_out(j, msg) == [jobs EXCEPT ![j].pc = "mark_failed", ![j].err = msg]

\* an exception is caught by the except clause of process_ticket_async
raise_in(j, msg) == [jobs EXCEPT ![j].pc = "commit_failed", ![j].err = msg]

\* A worker takes the message and process_ticket_async loads the row.
load_ticket(j) ==
    /\ jobs[j].pc = "queued"
    /\ \/ /\ tickets[jobs[j].ticket_id].exists
          /\ jobs' = [jobs EXCEPT ![j].pc = "commit_processing",
                                  ![j].found = TRUE,
                                  ![j].task_data =
                                      tickets[jobs[j].ticket_id].task_data]
       \/ /\ ~tickets[jobs[j].ticket_id].exists
          /\ jobs' = raise_out(j, MSG_NOT_FOUND)
    /\ UNCHANGED <<tickets, audit_logs>>
    /\ UNCHANGED wsvars

\* ticket.status = PROCESSING; await db.commit()
commit_processing(j) ==
    /\ jobs[j].pc = "commit_processing"
    /\ IF tickets[jobs[j].ticket_id].exists
       THEN /\ tickets' = [tickets EXCEPT
                             ![jobs[j].ticket_id].status = PROCESSING]
            /\ jobs' = [jobs EXCEPT ![j].pc = "audit_started",
                                    ![j].committed = PROCESSING]
       ELSE /\ jobs' = raise_out(j, MSG_DB)
            /\ UNCHANGED tickets
    /\ UNCHANGED audit_logs
    /\ UNCHANGED wsvars

audit_started(j) ==
    /\ jobs[j].pc = "audit_started"
    /\ audit_logs' = log_audit_event("ai_processing_started",
                                    jobs[j].ticket_id, j)
    /\ jobs' = goto(j, "invoke_handler")
    /\ UNCHANGED tickets
    /\ UNCHANGED wsvars

\* What the handler of a kind does with a ticket: returns a result or raises.
\* called says whether the handler got as far as calling a capability client
\* (GitHubClient, MCPSnowflakeClient or the completion client).
\* A result carries the values of its keys tokens_used and model_used.
Returned(keys, tokens_used, model_used) ==
    [ok |-> TRUE, result |-> keys, err |-> NULL, called |-> TRUE,
     tokens_used |-> tokens_used, model_used |-> model_used]
Raised(msg, called) ==
    [ok |-> FALSE, result |-> EmptyDict, err |-> msg, called |-> called,
     tokens_used |-> 0, model_used |-> NULL]
CapabilityFailures == {Raised(m, TRUE) : m \in CapabilityMessages}

\* task_data.get(...) on a task_data that is None
NoPayload(ticket) == ticket.task_data = NoneDict

process_pr_review(ticket) ==
    IF NoPayload(ticket)
    THEN {Raised(MSG_ATTRIBUTE, FALSE)}
    ELSE IF "pr_url" \notin ticket.task_data
    THEN {Raised(MSG_PR_URL, FALSE)}
    ELSE {Returned({"pr_url", "review_analysis", "tokens_used", "model_used"},
                  TOTAL_TOKENS, MODEL_NAME)}
         \cup CapabilityFailures

process_doc_analysis(ticket) ==
    IF NoPayload(ticket)
    THEN {Raised(MSG_ATTRIBUTE, FALSE)}
    ELSE {Returned({"documents_analyzed", "analysis", "tokens_used",
                    "model_used"},
                  TOTAL_TOKENS, MODEL_NAME)}
         \cup CapabilityFailures

process_paper_writing(ticket) ==
    IF NoPayload(ticket)
    THEN {Raised(MSG_ATTRIBUTE, FALSE)}
    ELSE {Returned({"paper_content", "tokens_used", "model_used"},
                  TOTAL_TOKENS, MODEL_NAME)}
         \cup CapabilityFailures

process_snowflake_query(ticket) ==
    IF NoPayload(ticket)
    THEN {Raised(MSG_ATTRIBUTE, FALSE)}
    ELSE IF "query_request" \notin ticket.task_data
    THEN {Raised(MSG_QUERY, FALSE)}
    ELSE {Returned({"query_request", "query_result", "tokens_used",
                    "model_used"},
                  0, MCP_SNOWFLAKE)}

process_custom_task(ticket) ==
    IF NoPayload(ticket)
    THEN {Raised(MSG_ATTRIBUTE, FALSE)}
    ELSE {Returned({"task_result", "tokens_used", "model_used"},
                  TOTAL_TOKENS, MODEL_NAME)}
         \cup CapabilityFailures

\* result = await handler(ticket, ai_client, db): the outcomes of the call,
\* each with the name of the handler that was called
Invoke(handler, outcomes) ==
    {[handler |-> handler, ok |-> r.ok, result |-> r.result, err |-> r.err,
      called |-> r.called, tokens_used |-> r.tokens_used,
      model_used |-> r.model_used] : r \in outcomes}

\* the else branch: ValueError raised by the dispatch itself, no handler
NoHandler ==
    {[handler |-> NULL, ok |-> FALSE, result |-> EmptyDict,
      err |-> MSG_UNKNOWN, called |-> FALSE, tokens_used |-> 0,
      model_used |-> NULL]}

\* dispatch that hands every kind to the custom handler
dispatch_custom_for_all(ticket) ==
    Invoke("process_custom_task", process_custom_task(ticket))

dispatch(ticket) ==
    CASE ticket.task_type = PR_REVIEW ->
             Invoke("process_pr_review", process_pr_review(ticket))
      [] ticket.task_type = DOC_ANALYSIS ->
             Invoke("process_doc_analysis", process_doc_analysis(ticket))
      [] ticket.task_type = PAPER_WRITING ->
             Invoke("process_paper_writing", process_paper_writing(ticket))
      [] ticket.task_type = SNOWFLAKE_QUERY ->
             Invoke("process_snowflake_query", process_snowflake_query(ticket))
      [] ticket.task_type = CUSTOM ->
             Invoke("process_custom_task", process_custom_task(ticket))
      [] OTHER -> NoHandler

\* the ticket object of the run: the kind of the row (no request changes
\* it) and the payload db.get read
Loaded(j) ==
    [tickets[jobs[j].ticket_id] EXCEPT !.task_data = jobs[j].task_data]

\* ai_client = AzureAIClient(), then the dispatch inside the try: the
\* handler returns, or raises into the except clause.
invoke_handler(j) ==
    /\ jobs[j].pc = "invoke_handler"
    /\ \E r \in dispatch(Loaded(j)) :
          jobs' = [jobs EXCEPT
                     ![j].invoked = IF r.handler = NULL THEN @
                                    ELSE Append(@, r.handler),
                     ![j].called = r.called,
                     ![j].result = r.result,
                     ![j].tokens_used = r.tokens_used,
                     ![j].model_used = r.model_used,
                     ![j].err = r.err,
                     ![j].pc = IF r.ok THEN "commit_completed"
                               ELSE "commit_failed"]
    /\ UNCHANGED <<tickets, audit_logs>>
    /\ UNCHANGED wsvars

\* result_data, status, completed_at, ai_model_used = ai_client.model_name,
\* tokens_used = result.get("tokens_used", 0), then commit
commit_completed(j) ==
    /\ jobs[j].pc = "commit_completed"
    /\ IF tickets[jobs[j].ticket_id].exists
       THEN /\ tickets' = [tickets EXCEPT
                             ![jobs[j].ticket_id].result_data = jobs[j].result,
                             ![jobs[j].ticket_id].status = COMPLETED,
                             ![jobs[j].ticket_id].completed_at = UTCNOW,
                             ![jobs[j].ticket_id].ai_model_used = MODEL_NAME,
                             ![jobs[j].ticket_id].tokens_used =
                                 jobs[j].tokens_used]
            /\ jobs' = [jobs EXCEPT ![j].pc = "audit_completed",
                                    ![j].committed = COMPLETED]
       ELSE /\ jobs' = raise_in(j, MSG_DB)
            /\ UNCHANGED tickets
    /\ UNCHANGED audit_logs
    /\ UNCHANGED wsvars

\* the completion entry, then the task returns
audit_completed(j) ==
    /\ jobs[j].pc = "audit_completed"
    /\ audit_logs' = log_audit_event("ai_processing_completed",
                                    jobs[j].ticket_id, j)
    /\ jobs' = [jobs EXCEPT ![j].pc = "done", ![j].outcome = "returned"]
    /\ UNCHANGED tickets
    /\ UNCHANGED wsvars

\* except Exception as e: status = FAILED, error_message = str(e), commit
commit_failed(j) ==
    /\ jobs[j].pc = "commit_failed"
    /\ IF tickets[jobs[j].ticket_id].exists
       THEN /\ tickets' = [tickets EXCEPT
                             ![jobs[j].ticket_id].status = FAILED,
                             ![jobs[j].ticket_id].error_message = jobs[j].err]
            /\ jobs' = [jobs EXCEPT ![j].pc = "audit_failed",
                                    ![j].committed = FAILED,
                                    ![j].stored = jobs[j].err]
       ELSE /\ jobs' = raise_out(j, MSG_DB)
            /\ UNCHANGED tickets
    /\ UNCHANGED audit_logs
    /\ UNCHANGED wsvars

\* the failure entry, then `raise` hands e to process_ticket_task
audit_failed(j) ==
    /\ jobs[j].pc = "audit_failed"
    /\ audit_logs' = log_audit_event("ai_processing_failed",
                                    jobs[j].ticket_id, j)
    /\ jobs' = goto(j, "mark_failed")
    /\ UNCHANGED tickets
    /\ UNCHANGED wsvars

\* mark_ticket_failed that queues the message again when the row is absent
mark_ticket_failed_requeues(j) ==
    /\ jobs[j].pc = "mark_failed"
    /\ \/ /\ tickets[jobs[j].ticket_id].exists
          /\ tickets' = [tickets EXCEPT
                           ![jobs[j].ticket_id].status = FAILED,
                           ![jobs[j].ticket_id].error_message = jobs[j].err]
          /\ jobs' = [jobs EXCEPT ![j].pc = "done", ![j].outcome = "raised",
                                  ![j].committed = FAILED,
                                  ![j].stored = jobs[j].err]
       \/ /\ ~tickets[jobs[j].ticket_id].exists
          /\ FreeJobs # {}
          /\ jobs' = [delay(NextJob, jobs[j].ticket_id, "retry")
                         EXCEPT ![j].pc = "done", ![j].outcome = "raised"]
          /\ UNCHANGED tickets
    /\ UNCHANGED audit_logs
    /\ UNCHANGED wsvars

\* except clause of process_ticket_task: mark_ticket_failed(ticket_id, str(e))
\* in a session of its own, then the exception goes to Celery.  The row is
\* written when it exists.
mark_ticket_failed(j) ==
    /\ jobs[j].pc = "mark_failed"
    /\ \/ /\ tickets[jobs[j].ticket_id].exists
          /\ tickets' = [tickets EXCEPT
                           ![jobs[j].ticket_id].status = FAILED,
                           ![jobs[j].ticket_id].error_message = jobs[j].err]
          /\ jobs' = [jobs EXCEPT ![j].pc = "done", ![j].outcome = "raised",
                                  ![j].committed = FAILED,
                                  ![j].stored = jobs[j].err]
       \/ /\ ~tickets[jobs[j].ticket_id].exists
          /\ jobs' = [jobs EXCEPT ![j].pc = "done", ![j].outcome = "raised"]
          /\ UNCHANGED tickets
    /\ UNCHANGED audit_logs
    /\ UNCHANGED wsvars

\* ------------------------------------------------- infrastructure faults
\* A database round trip or the construction of the completion client
\* raises instead of doing its work.  Where the exception lands depends on
\* where the statement stands relative to the try of process_ticket_async.

\* db.get (line 51), the PROCESSING commit (57) and the started entry (60)
\* stand before the try: the exception leaves process_ticket_async.
fault_before_try(j) ==
    /\ jobs[j].pc \in {"queued", "commit_processing", "audit_started"}
    /\ jobs' = raise_out(j, MSG_DB)
    /\ UNCHANGED <<tickets, audit_logs>>
    /\ UNCHANGED wsvars

\* AzureAIClient() (line 70) stands before the try as well.
fault_client(j) ==
    /\ jobs[j].pc = "invoke_handler"
    /\ jobs' = raise_out(j, MSG_CLIENT)
    /\ UNCHANGED <<tickets, audit_logs>>
    /\ UNCHANGED wsvars

\* the COMPLETED commit (94) and the completion entry (97) stand inside the
\* try: the except clause catches the exception.
fault_in_try(j) ==
    /\ jobs[j].pc \in {"commit_completed", "audit_completed"}
    /\ jobs' = raise_in(j, MSG_DB)
    /\ UNCHANGED <<tickets, audit_logs>>
    /\ UNCHANGED wsvars

\* the FAILED commit (116) and the failure entry (119) stand inside the
\* except clause: the new exception leaves process_ticket_async.
fault_in_except(j) ==
    /\ jobs[j].pc \in {"commit_failed", "audit_failed"}
    /\ jobs' = raise_out(j, MSG_DB)
    /\ UNCHANGED <<tickets, audit_logs>>
    /\ UNCHANGED wsvars

\* the session of mark_ticket_failed raises: nothing is written and the
\* new exception goes to Celery.
fault_mark_ticket_failed(j) ==
    /\ jobs[j].pc = "mark_failed"
    /\ jobs' = [jobs EXCEPT ![j].pc = "done", ![j].outcome = "raised",
                            ![j].err = MSG_DB]
    /\ UNCHANGED <<tickets, audit_logs>>
    /\ UNCHANGED wsvars

\* ------------------------------------------------------------ the queue
\* task_acks_late: a message is acknowledged when its task ends, so the
\* broker may hand a message that is being worked on to a second worker.
Running(j) == jobs[j].pc \notin {"free", "queued", "done"}

redeliver(j) ==
    /\ Running(j)
    /\ FreeJobs # {}
    /\ jobs' = delay(NextJob, jobs[j].ticket_id, "redelivery")
    /\ UNCHANGED <<tickets, audit_logs>>
    /\ UNCHANGED wsvars

\* ------------------------------------------------- the connection manager
\* Everything below runs on the event loop of the API process: a coroutine
\* runs until it awaits, so an action is the code between two awaits.  The
\* last such stretch of a send operation is written as two steps, the second
\* being the return to the caller: in between the record of the operation
\* can be read, and nothing else runs.
Returning == call.pc \in {"returned", "raised"} \/ personal.op # "none"

\* the dicts become reg; a key that leaves active_connections takes its
\* entry with it, so the iterator of a broadcast in progress has not yielded
\* the entry a later connect creates for the same user
set_registry(reg) ==
    /\ active_connections' = reg.active_connections
    /\ websocket_users' = reg.websocket_users

forget(c, reg) == [c EXCEPT !.visited = @ \cap DOMAIN reg.active_connections]

\* send_personal_message on the registry reg, within the stretch p: one
\* send_text on the websocket, which is disconnected when the send raises;
\* the exception goes no further.
send_personal_message(message, websocket, reg, p) ==
    \E sent \in BOOLEAN :
        LET after == IF sent THEN reg ELSE disconnect(reg, websocket)
        IN /\ set_registry(after)
           /\ call' = forget(call, after)
           /\ personal' = [p EXCEPT !.sends =
                              Append(@, [websocket |-> websocket,
                                         message |-> message, sent |-> sent])]

\* a stretch that sends nothing and writes nothing
no_reply(p) ==
    /\ personal' = p
    /\ UNCHANGED <<active_connections, websocket_users, call>>

\* connect that sends the confirmation to every registered websocket
connect_confirms_to_all(websocket, user_id, accepted, p) ==
    IF ~accepted
    THEN no_reply(p)
    ELSE LET reg == register(Registry, websocket, user_id)
             confirmation ==
                 [Message("connection_confirmed") EXCEPT
                     !.message = "WebSocket connection established",
                     !.user_id = user_id]
         IN /\ set_registry(reg)
            /\ call' = forget(call, reg)
            /\ personal' =
                   [p EXCEPT
                      !.registered = TRUE,
                      !.sends =
                          [i \in 1..Cardinality(DOMAIN reg.websocket_users) |->
                              [websocket |-> i, message |-> confirmation,
                               sent |-> TRUE]]]

\* connect: accept raises, or the websocket is written into both dicts and
\* connection_confirmed is sent to it as a personal message
connect(websocket, user_id, accepted, p) ==
    IF ~accepted
    THEN no_reply(p)
    ELSE send_personal_message(
             [Message("connection_confirmed") EXCEPT
                 !.message = "WebSocket connection established",
                 !.user_id = user_id],
             websocket,
             register(Registry, websocket, user_id),
             [p EXCEPT !.registered = TRUE])

\* websocket_endpoint up to the receive loop.  outcome is what the
\* authentication and the accept come to: "rejected" when the token gives no
\* user or a user that is not active (close with 4001, return), "raised"
\* when get_current_user_from_token or accept raises (the outer except
\* closes with 4000), "connected" otherwise; user_id is the user of the
\* token, NoUser when there is none.  The endpoint of a websocket is "new"
\* before this stretch, "open" in the receive loop, "rejected" when it was
\* closed without connecting, and "closed" when its receive loop has ended.
websocket_endpoint(websocket, user_id, outcome) ==
    /\ ~Returning
    /\ endpoints[websocket] = "new"
    /\ outcome = "connected" => user_id # NoUser
    /\ LET p == [NoPersonal EXCEPT !.op = "websocket_endpoint",
                                  !.websocket = websocket,
                                  !.user_id = user_id]
       IN CASE outcome = "rejected" -> no_reply(p)
            [] outcome = "raised" -> connect(websocket, user_id, FALSE, p)
            [] outcome = "connected" -> connect(websocket, user_id, TRUE, p)
    /\ endpoints' = [endpoints EXCEPT ![websocket] =
                        IF outcome = "connected" THEN "open" ELSE "rejected"]
    /\ UNCHANGED ticket_updates
    /\ UNCHANGED corevars

\* handle_client_message: pong for a ping, subscription_confirmed for a
\* subscribe_ticket that has a ticket id and comes from a websocket that
\* websocket_users knows, nothing for the rest
handle_client_message(websocket, message, p) ==
    IF message.type = "ping"
    THEN send_personal_message(
             [Message("pong") EXCEPT !.timestamp = message.timestamp],
             websocket, Registry, p)
    ELSE IF message.type = "subscribe_ticket"
    THEN LET ticket_id == message.ticket_id
             user_id == IF websocket \in DOMAIN websocket_users
                        THEN websocket_users[websocket]
                        ELSE NoUser
         IN IF ticket_id # NoTicketId /\ user_id # NoUser
            THEN send_personal_message(
                     [Message("subscription_confirmed") EXCEPT
                         !.ticket_id = ticket_id],
                     websocket, Registry, p)
            ELSE no_reply(p)
    ELSE no_reply(p)

\* One turn of the receive loop: receive_text returns data; json.loads
\* raises JSONDecodeError, or the message goes to handle_client_message,
\* whose message.get raises when the JSON value is no object.  Both
\* exceptions are answered with an error message.
receive_text(websocket, data) ==
    /\ ~Returning
    /\ endpoints[websocket] = "open"
    /\ LET p == [NoPersonal EXCEPT !.op = "receive_text",
                                  !.websocket = websocket,
                                  !.request = data]
       IN CASE data.json = "invalid" ->
                   send_personal_message(
                       [Message("error") EXCEPT
                           !.message = "Invalid JSON format"],
                       websocket, Registry, p)
            [] data.json = "not_object" ->
                   send_personal_message(
                       [Message("error") EXCEPT
                           !.message = "Error processing message"],
                       websocket, Registry, p)
            [] data.json = "object" ->
                   handle_client_message(websocket, data.message, p)
    /\ UNCHANGED <<endpoints, ticket_updates>>
    /\ UNCHANGED corevars

\* websocket_endpoint_finally that leaves the websocket registered
websocket_endpoint_finally_forgets(websocket) ==
    /\ ~Returning
    /\ endpoints[websocket] = "open"
    /\ endpoints' = [endpoints EXCEPT ![websocket] = "closed"]
    /\ UNCHANGED <<active_connections, websocket_users, call, ticket_updates,
                   personal>>
    /\ UNCHANGED corevars

\* The receive loop ends (WebSocketDisconnect or another exception):
\* finally: manager.disconnect(websocket)
websocket_endpoint_finally(websocket) ==
    /\ ~Returning
    /\ endpoints[websocket] = "open"
    /\ LET reg == disconnect(Registry, websocket)
       IN /\ set_registry(reg)
          /\ call' = forget(call, reg)
    /\ endpoints' = [endpoints EXCEPT ![websocket] = "closed"]
    /\ UNCHANGED <<ticket_updates, personal>>
    /\ UNCHANGED corevars

\* no send operation is in progress and no operation is returning
NoCallRunning == call.pc = "idle" /\ ~Returning

\* the caller of the operation has the result or the exception
return_to_caller ==
    /\ Returning
    /\ call' = IF call.pc \in {"returned", "raised"} THEN NoCall ELSE call
    /\ personal' = NoPersonal
    /\ UNCHANGED <<active_connections, websocket_users, endpoints,
                   ticket_updates>>
    /\ UNCHANGED corevars

\* a return that skips the clean-up loop
finish_without_cleanup(c) ==
    /\ UNCHANGED <<active_connections, websocket_users>>
    /\ call' = [c EXCEPT !.pc = "returned"]

\* the clean-up loop and the return of a send operation
finish(c) ==
    /\ set_registry(disconnect_each(Registry, c.disconnected_websockets))
    /\ call' = [c EXCEPT !.pc = "returned"]

\* for user_id, websockets in self.active_connections.items(): the iterator
\* raises RuntimeError when the dict has another size than at its creation,
\* ends when it has yielded every entry, and yields an entry otherwise; the
\* inner loop then iterates a copy of the entry's set.  The exception leaves
\* broadcast_to_all before the clean-up loop.
next_user(c) ==
    IF Cardinality(DOMAIN active_connections) # c.used
    THEN /\ call' = [c EXCEPT !.pc = "raised"]
         /\ UNCHANGED <<active_connections, websocket_users>>
    ELSE IF DOMAIN active_connections \ c.visited = {}
    THEN finish(c)
    ELSE /\ \E user_id \in DOMAIN active_connections \ c.visited :
               call' = [c EXCEPT !.visited = @ \cup {user_id},
                                 !.todo = active_connections[user_id]]
         /\ UNCHANGED <<active_connections, websocket_users>>

\* send_message_to_user that looks the user's set up with setdefault
send_message_to_user_setdefault(message, user_id) ==
    /\ NoCallRunning
    /\ IF user_id \in DOMAIN active_connections
       THEN /\ call' = [NoCall EXCEPT
                          !.op = "send_message_to_user", !.pc = "send",
                          !.message = message, !.user_id = user_id,
                          !.todo = active_connections[user_id],
                          !.registered = active_connections[user_id]]
            /\ UNCHANGED <<active_connections, websocket_users>>
       ELSE /\ call' = [NoCall EXCEPT
                          !.op = "send_message_to_user", !.pc = "returned",
                          !.message = message, !.user_id = user_id]
            /\ active_connections' = Put(active_connections, user_id, {})
            /\ UNCHANGED websocket_users

\* send_message_to_user up to its first send_text
send_message_to_user(message, user_id) ==
    /\ NoCallRunning
    /\ IF user_id \in DOMAIN active_connections
       THEN call' = [NoCall EXCEPT
                       !.op = "send_message_to_user", !.pc = "send",
                       !.message = message, !.user_id = user_id,
                       !.todo = active_connections[user_id],
                       !.registered = active_connections[user_id]]
       ELSE call' = [NoCall EXCEPT
                       !.op = "send_message_to_user", !.pc = "returned",
                       !.message = message, !.user_id = user_id]
    /\ UNCHANGED <<active_connections, websocket_users>>

\* broadcast_to_all up to its first send_text
broadcast_to_all(message) ==
    /\ NoCallRunning
    /\ next_user([NoCall EXCEPT
                    !.op = "broadcast_to_all", !.pc = "send",
                    !.message = message,
                    !.used = Cardinality(DOMAIN active_connections),
                    !.registered = DOMAIN websocket_users])

\* the method called directly
SendMessageToUser ==
    /\ \E user_id \in UserIds :
          send_message_to_user("processing_status", user_id)
    /\ UNCHANGED <<endpoints, ticket_updates, personal>>
    /\ UNCHANGED corevars

BroadcastToAll ==
    /\ broadcast_to_all("processing_status")
    /\ UNCHANGED <<endpoints, ticket_updates, personal>>
    /\ UNCHANGED corevars

\* notify_ticket_update / send_ticket_update: to the user when a user_id is
\* given, to everybody when it is None
send_ticket_update(ticket_id, user_id) ==
    /\ IF user_id # NoUser
       THEN /\ send_message_to_user("ticket_update", user_id)
            /\ ticket_updates' = ticket_updates \cup {ticket_id}
       ELSE /\ broadcast_to_all("ticket_update")
            /\ UNCHANGED ticket_updates
    /\ UNCHANGED <<endpoints, personal>>
    /\ UNCHANGED corevars

\* await websocket.send_text(...) of the operation in progress returns (sent)
\* or raises, for one websocket of the copy; the code that follows runs up to
\* the next send_text or to the return.  A send on a websocket whose
\* endpoint has ended raises.
send_text(websocket, sent) ==
    /\ ~Returning
    /\ call.pc = "send"
    /\ websocket \in call.todo
    /\ sent => endpoints[websocket] = "open"
    /\ LET c == [call EXCEPT
                   !.todo = @ \ {websocket},
                   !.attempts[websocket] = @ + 1,
                   !.delivered = IF sent THEN @ \cup {websocket} ELSE @,
                   !.disconnected_websockets =
                       IF sent THEN @ ELSE @ \cup {websocket}]
       IN IF c.todo # {}
          THEN /\ call' = c
               /\ UNCHANGED <<active_connections, websocket_users>>
          ELSE IF c.op = "send_message_to_user"
          THEN finish(c)
          ELSE next_user(c)
    /\ UNCHANGED <<endpoints, ticket_updates, personal>>
    /\ UNCHANGED corevars

\* ------------------------------------------------------- specifications
JobStep ==
    \E j \in JobIds :
        \/ load_ticket(j)
        \/ commit_processing(j)
        \/ audit_started(j)
        \/ invoke_handler(j)
        \/ commit_completed(j)
        \/ audit_completed(j)
        \/ commit_failed(j)
        \/ audit_failed(j)
        \/ mark_ticket_failed(j)

Create == \E t \in TicketIds, kind \in TaskType :
              \E data \in TaskData(kind) : create_ticket(t, kind, data)
Reprocess == \E t \in TicketIds : reprocess_ticket(t)
Update == \E t \in TicketIds, s \in TicketStatus : update_ticket(t, s)
UpdateTaskData ==
    \E t \in TicketIds :
        \E data \in TaskData(tickets[t].task_type) \cup {NoneDict} :
            update_ticket_task_data(t, data)
Delete == \E t \in TicketIds : delete_ticket(t)
Redeliver == \E j \in JobIds : redeliver(j)
Fault ==
    \E j \in JobIds :
        \/ fault_before_try(j)
        \/ fault_client(j)
        \/ fault_in_try(j)
        \/ fault_in_except(j)
        \/ fault_mark_ticket_failed(j)

Outcomes == {"rejected", "raised", "connected"}
WebSocketEndpoint ==
    \E websocket \in WebSockets, user_id \in UserIds \cup {NoUser} :
        \E outcome \in Outcomes :
            websocket_endpoint(websocket, user_id, outcome)
ReceiveText == \E websocket \in WebSockets :
                   \E data \in ClientData : receive_text(websocket, data)
\* the endpoint of a client whose token authenticates and whose accept
\* returns, and a turn of the receive loop for a ping
Connect == \E websocket \in WebSockets, user_id \in UserIds :
               websocket_endpoint(websocket, user_id, "connected")
ReceivePing ==
    \E websocket \in WebSockets :
        receive_text(websocket,
                     [json |-> "object",
                      message |-> [Message("ping") EXCEPT !.timestamp = "t"]])
EndpointFinally == \E websocket \in WebSockets :
                       websocket_endpoint_finally(websocket)
SendTicketUpdate == \E ticket_id \in TicketIds, user_id \in UserIds \cup {NoUser} :
                        send_ticket_update(ticket_id, user_id)
SendText == \E websocket \in WebSockets, sent \in BOOLEAN :
                send_text(websocket, sent)

\* the endpoints in full: every outcome of authentication and accept, every
\* kind of client data, the end of the receive loop, and sends to a user
NextEndpoint ==
    \/ WebSocketEndpoint \/ ReceiveText \/ EndpointFinally
    \/ SendMessageToUser \/ SendText
    \/ return_to_caller
SpecEndpoint == Init /\ [][NextEndpoint]_vars

\* the connection manager alone: endpoints that connect, answer a ping and
\* end, and send operations one at a time
NextManager ==
    \/ Connect \/ ReceivePing \/ EndpointFinally
    \/ SendMessageToUser \/ BroadcastToAll \/ SendTicketUpdate \/ SendText
    \/ return_to_caller
SpecManager == Init /\ [][NextManager]_vars

\* creation, reprocess and job runs, every queued message delivered once
NextOnce == Create \/ Reprocess \/ JobStep
SpecOnce == Init /\ [][NextOnce]_vars

\* creation and job runs with the queue's duplicate deliveries, no reprocess
NextQueue == Create \/ JobStep \/ Redeliver
SpecQueue == Init /\ [][NextQueue]_vars

\* creation, reprocess, the request layer's status edits (cancellation) and
\* job runs, every queued message delivered once
NextRequests == Create \/ Reprocess \/ Update \/ JobStep
SpecRequests == Init /\ [][NextRequests]_vars

\* creation, edits of the task-input payload and job runs, every queued
\* message delivered once
NextPayload == Create \/ UpdateTaskData \/ JobStep
SpecPayload == Init /\ [][NextPayload]_vars

\* creation, deletion and job runs, every queued message delivered once
NextDelete == Create \/ Delete \/ JobStep
SpecDelete == Init /\ [][NextDelete]_vars

\* the ticket side in full: creation, reprocess, job runs, duplicate
\* deliveries, the request layer's status edits (cancellation) and deletions,
\* and infrastructure faults
Next ==
    Create \/ Reprocess \/ JobStep \/ Redeliver \/ Update \/ Delete \/ Fault
Spec == Init /\ [][Next]_vars

\* ----------------------------------------------------------------- claims
\* A run holds PROCESSING from its commit of PROCESSING until its commit of
\* COMPLETED or FAILED.
HoldsProcessing(j) == Running(j) /\ jobs[j].committed = PROCESSING

\* the messages of a ticket that are queued or being worked on
InFlight(t) ==
    {j \in JobIds : jobs[j].ticket_id = t /\ jobs[j].pc \notin {"free", "done"}}

\* the audit entries a run appended, in the order of the log
EntriesOf(j) == SelectSeq(audit_logs, LAMBDA e : e.job = j)
IsStarted(e) == e.action = "ai_processing_started"
IsTerminal(e) ==
    e.action \in {"ai_processing_completed", "ai_processing_failed"}

\* C1: no two runs of the same ticket hold PROCESSING at the same time, also
\* when the queue delivers a message twice.
C1_OneRunHoldsProcessing ==
    \A j, k \in JobIds :
        (j # k /\ jobs[j].ticket_id = jobs[k].ticket_id)
            => ~(HoldsProcessing(j) /\ HoldsProcessing(k))

\* C2: a run gets past the PROCESSING transition only when the ticket was
\* PENDING at that moment; from any other status the record is left as it is.
C2_ProcessingOnlyFromPending ==
    [][\A j \in JobIds :
          (jobs[j].pc = "commit_processing" /\ jobs'[j].pc = "audit_started")
              => tickets[jobs[j].ticket_id].status = PENDING]_vars

\* C3: reprocess enqueues a job, and touches the ticket, only when the status
\* is FAILED, COMPLETED or CANCELLED.
C3_ReprocessOnlyFromTerminal ==
    [][\A j \in JobIds :
          (jobs[j].pc = "free" /\ jobs'[j].origin = "reprocess_ticket")
              => tickets[jobs'[j].ticket_id].status
                     \in {FAILED, COMPLETED, CANCELLED}]_vars

\* C4: with every message delivered once, a ticket has at most one job queued
\* or running.
C4_OneJobInFlight ==
    \A t \in TicketIds : Cardinality(InFlight(t)) <= 1

\* C5: no step of a job run takes a ticket out of CANCELLED.
C5_CancelledIsKept ==
    [][\A j \in JobIds :
          (/\ jobs[j].pc \notin {"free", "done"}
           /\ jobs'[j].pc # jobs[j].pc
           /\ tickets[jobs[j].ticket_id].status = CANCELLED)
              => tickets'[jobs[j].ticket_id].status = CANCELLED]_vars

\* C6: a run that found its ticket and has ended committed COMPLETED or
\* FAILED as its last status, and when it ended by raising it stored an error
\* text that is not empty.
C6_RunEndsTerminal ==
    \A j \in JobIds :
        (jobs[j].pc = "done" /\ jobs[j].found)
            => /\ jobs[j].committed \in {COMPLETED, FAILED}
               /\ jobs[j].outcome = "raised"
                     => jobs[j].stored \notin {NULL, MSG_EMPTY}

\* C7: a run that found its ticket and has ended with COMPLETED or FAILED
\* committed appended one started entry and then one terminal entry, and
\* nothing else.
C7_OneStartedOneTerminal ==
    \A j \in JobIds :
        (/\ jobs[j].pc = "done"
         /\ jobs[j].found
         /\ jobs[j].committed \in {COMPLETED, FAILED})
            => /\ Len(EntriesOf(j)) = 2
               /\ IsStarted(EntriesOf(j)[1])
               /\ IsTerminal(EntriesOf(j)[2])

\* C8: a result payload that is not empty belongs to a COMPLETED ticket.
C8_ResultOnlyWhenCompleted ==
    \A t \in TicketIds :
        (tickets[t].exists /\ tickets[t].result_data # EmptyDict)
            => tickets[t].status = COMPLETED

\* C9: an error text belongs to a FAILED ticket.
C9_ErrorOnlyWhenFailed ==
    \A t \in TicketIds :
        (tickets[t].exists /\ tickets[t].error_message # NULL)
            => tickets[t].status = FAILED

\* C10: the completed timestamp is set exactly when the status is COMPLETED.
C10_CompletedAtIffCompleted ==
    \A t \in TicketIds :
        tickets[t].exists
            => (tickets[t].completed_at # NULL <=> tickets[t].status = COMPLETED)

\* C11: a COMPLETED ticket has its completed timestamp set, no error text and
\* a result payload that is not empty.
C11_CompletedIsClean ==
    \A t \in TicketIds :
        (tickets[t].exists /\ tickets[t].status = COMPLETED)
            => /\ tickets[t].completed_at # NULL
               /\ tickets[t].error_message = NULL
               /\ tickets[t].result_data # EmptyDict

\* C12: a reprocess request on a FAILED, COMPLETED or CANCELLED ticket leaves
\* the ticket PENDING with no error text and an empty result payload, and
\* queues one new job, for that ticket, changing no other job.
C12_ReprocessResetsAndEnqueues ==
    [][\A j \in JobIds :
          (/\ jobs[j].pc = "free"
           /\ jobs'[j].origin = "reprocess_ticket"
           /\ tickets[jobs'[j].ticket_id].status \in {FAILED, COMPLETED, CANCELLED})
              => /\ tickets'[jobs'[j].ticket_id].status = PENDING
                 /\ tickets'[jobs'[j].ticket_id].error_message = NULL
                 /\ tickets'[jobs'[j].ticket_id].result_data = EmptyDict
                 /\ jobs'[j].pc = "queued"
                 /\ \A k \in JobIds \ {j} : jobs'[k] = jobs[k]
                 /\ \A u \in TicketIds \ {jobs'[j].ticket_id} :
                        tickets'[u] = tickets[u]]_vars

\* a job queued by reprocess for a ticket whose earlier run has ended with
\* COMPLETED or FAILED committed, the ticket reset
C12_Witness ==
    \E j, k \in JobIds :
        /\ jobs[j].pc = "done"
        /\ jobs[j].committed \in {COMPLETED, FAILED}
        /\ jobs[k].pc = "queued"
        /\ jobs[k].origin = "reprocess_ticket"
        /\ jobs[k].ticket_id = jobs[j].ticket_id
        /\ tickets[jobs[k].ticket_id].status = PENDING
        /\ tickets[jobs[k].ticket_id].error_message = NULL
        /\ tickets[jobs[k].ticket_id].result_data = EmptyDict

\* With no infrastructure fault and no deletion, a run that found its ticket
\* and has left invoke_handler has been through the dispatch.
PastDispatch(j) ==
    /\ jobs[j].found
    /\ jobs[j].pc \in {"commit_completed", "audit_completed", "commit_failed",
                       "audit_failed", "mark_failed", "done"}

\* the handler the registry names for a kind
HandlerOfKind(kind) ==
    CASE kind = PR_REVIEW -> "process_pr_review"
      [] kind = DOC_ANALYSIS -> "process_doc_analysis"
      [] kind = PAPER_WRITING -> "process_paper_writing"
      [] kind = SNOWFLAKE_QUERY -> "process_snowflake_query"
      [] kind = CUSTOM -> "process_custom_task"

\* a row whose kind is none of the five
UnknownKindTicket == NewTicket("unknown", EmptyDict)

\* C14: a run that has been through the dispatch called one handler, the one
\* of the ticket's kind; the dispatch of a kind outside the five calls no
\* handler and raises, and a run that ends by raising committed FAILED.
C14_OneHandlerByKind ==
    /\ \A j \in JobIds :
          PastDispatch(j)
              => jobs[j].invoked =
                     <<HandlerOfKind(tickets[jobs[j].ticket_id].task_type)>>
    /\ \A r \in dispatch(UnknownKindTicket) :
          r.handler = NULL /\ ~r.ok /\ ~r.called
    /\ \A j \in JobIds :
          (jobs[j].pc = "done" /\ jobs[j].found /\ jobs[j].outcome = "raised")
              => jobs[j].committed = FAILED

\* a run of a pr_review ticket has ended after calling process_pr_review
C14_Witness ==
    \E j \in JobIds :
        /\ jobs[j].pc = "done"
        /\ tickets[jobs[j].ticket_id].task_type = PR_REVIEW
        /\ jobs[j].invoked = <<"process_pr_review">>

\* C15: the steps of a run that found no row for its ticket id change no
\* ticket, append no audit entry and touch no other job, and the run ends
\* raising the not-found error without having called a handler.
C15_NotFoundChangesNothing ==
    [][\A j \in JobIds :
          (/\ jobs[j].pc \in {"queued", "mark_failed"}
           /\ jobs'[j].pc # jobs[j].pc
           /\ ~jobs'[j].found)
              => /\ tickets' = tickets
                 /\ audit_logs' = audit_logs
                 /\ \A k \in JobIds \ {j} : jobs'[k] = jobs[k]
                 /\ jobs'[j].err = MSG_NOT_FOUND
                 /\ jobs'[j].invoked = <<>>
                 /\ jobs'[j].committed = "none"
                 /\ jobs'[j].pc = "done" => jobs'[j].outcome = "raised"]_vars

\* a run whose ticket was deleted before it was loaded has ended
C15_Witness ==
    \E j \in JobIds :
        /\ jobs[j].pc = "done"
        /\ ~jobs[j].found
        /\ jobs[j].outcome = "raised"
        /\ jobs[j].err = MSG_NOT_FOUND
        /\ tickets[jobs[j].ticket_id].deleted

\* the payload has no usable value under the key
Lacks(ticket, field) == NoPayload(ticket) \/ field \notin ticket.task_data

\* the texts that say a field is required
RequiredMessages == {MSG_PR_URL, MSG_QUERY}

\* C16: the handler of a pr_review ticket whose payload lacks pr_url, or of a
\* snowflake_query ticket whose payload lacks query_request, raises before it
\* calls a capability client, with a text that says the field is required,
\* and the run then commits FAILED with that text.
C16_MissingFieldIsRequired ==
    [][\A j \in JobIds :
          /\ (/\ jobs[j].pc = "invoke_handler"
              /\ jobs'[j].pc # "invoke_handler"
              /\ \/ /\ Loaded(j).task_type = PR_REVIEW
                    /\ Lacks(Loaded(j), "pr_url")
                 \/ /\ Loaded(j).task_type = SNOWFLAKE_QUERY
                    /\ Lacks(Loaded(j), "query_request"))
                => /\ jobs'[j].pc = "commit_failed"
                   /\ ~jobs'[j].called
                   /\ jobs'[j].err \in RequiredMessages
          /\ (jobs[j].pc = "commit_failed" /\ jobs'[j].pc = "audit_failed")
                => /\ tickets'[jobs[j].ticket_id].status = FAILED
                   /\ tickets'[jobs[j].ticket_id].error_message = jobs[j].err]_vars

\* C17: the request that inserts a ticket leaves it PENDING with an empty
\* result payload and no error text, and queues one job for it.
C17_NewTicketIsPending ==
    [][\A t \in TicketIds :
          (~tickets[t].exists /\ tickets'[t].exists)
              => /\ tickets'[t].status = PENDING
                 /\ tickets'[t].result_data = EmptyDict
                 /\ tickets'[t].error_message = NULL
                 /\ Cardinality({j \in JobIds : jobs'[j] # jobs[j]}) = 1
                 /\ \E j \in JobIds :
                        /\ jobs[j].pc = "free"
                        /\ jobs'[j].pc = "queued"
                        /\ jobs'[j].ticket_id = t
                        /\ jobs'[j].origin = "create_ticket"]_vars

\* a ticket just inserted, its job still queued
C17_Witness ==
    \E t \in TicketIds, j \in JobIds :
        /\ tickets[t].exists
        /\ tickets[t].status = PENDING
        /\ tickets[t].result_data = EmptyDict
        /\ tickets[t].error_message = NULL
        /\ jobs[j].pc = "queued"
        /\ jobs[j].origin = "create_ticket"
        /\ jobs[j].ticket_id = t

\* C13: a run that has ended with COMPLETED or FAILED committed has handed a
\* ticket_update for its ticket, addressed to a user, to the connection
\* manager.
C13_TerminalIsNotified ==
    \A j \in JobIds :
        (jobs[j].pc = "done" /\ jobs[j].committed \in {COMPLETED, FAILED})
            => jobs[j].ticket_id \in ticket_updates

\* the websockets of a user in a registry, none when the user has no entry
ChannelsOf(reg, user_id) ==
    IF user_id \in DOMAIN reg.active_connections
    THEN reg.active_connections[user_id]
    ELSE {}

\* C18: send_message_to_user never raises, and when it returns after sending
\* it has called send_text once on every websocket the user had when it
\* started and on no other, and the step that returns takes out of both dicts
\* the websockets whose send_text raised and nothing else.
C18_SendToUserIsolatesFailures ==
    [][/\ call'.op = "send_message_to_user" => call'.pc # "raised"
       /\ (/\ call.op = "send_message_to_user"
           /\ call.pc = "send"
           /\ call'.pc = "returned")
             => /\ \A w \in WebSockets :
                      call'.attempts[w] = IF w \in call'.registered THEN 1 ELSE 0
                /\ call'.delivered \cup call'.disconnected_websockets
                       = call'.registered
                /\ call'.delivered \cap call'.disconnected_websockets = {}
                /\ DOMAIN websocket_users' =
                       DOMAIN websocket_users \ call'.disconnected_websockets
                /\ \A w \in DOMAIN websocket_users' :
                       websocket_users'[w] = websocket_users[w]
                /\ \A u \in UserIds :
                       ChannelsOf(Registry, u) \ call'.disconnected_websockets
                           = IF u \in DOMAIN active_connections'
                             THEN active_connections'[u]
                             ELSE {}]_vars

\* a send to a user with two websockets has returned: one send_text raised
\* and that websocket is gone, the other returned and its websocket stays
C18_Witness ==
    /\ call.op = "send_message_to_user"
    /\ call.pc = "returned"
    /\ Cardinality(call.registered) = 2
    /\ \E w, x \in call.registered :
          /\ w \in call.disconnected_websockets
          /\ w \notin DOMAIN websocket_users
          /\ x \in call.delivered
          /\ x \in DOMAIN websocket_users
          /\ call.attempts[w] = 1
          /\ call.attempts[x] = 1

\* C19: broadcast_to_all never raises, and when it returns it has called
\* send_text once on every websocket that was registered from its start to
\* its return, and the step that returns takes out of both dicts the
\* websockets whose send_text raised and nothing else.
C19_BroadcastIsolatesFailures ==
    [][/\ call'.op = "broadcast_to_all" => call'.pc # "raised"
       /\ (/\ call.op = "broadcast_to_all"
           /\ call'.pc = "returned")
             => /\ \A w \in call'.registered \cap DOMAIN websocket_users :
                      call'.attempts[w] = 1
                /\ DOMAIN websocket_users' =
                       DOMAIN websocket_users \ call'.disconnected_websockets
                /\ \A u \in UserIds :
                       ChannelsOf(Registry, u) \ call'.disconnected_websockets
                           = IF u \in DOMAIN active_connections'
                             THEN active_connections'[u]
                             ELSE {}]_vars

\* C20: in every registry the manager reaches, disconnect of a websocket that
\* is not registered changes nothing, disconnect of a registered one lowers
\* get_connection_count by one, and a second disconnect of the same
\* websocket changes nothing more.
C20_DisconnectIsIdempotent ==
    \A w \in WebSockets :
        LET once == disconnect(Registry, w)
            twice == disconnect(once, w)
        IN /\ twice = once
           /\ w \notin DOMAIN websocket_users => once = Registry
           /\ w \in DOMAIN websocket_users
                 => /\ get_connection_count(once)
                           = get_connection_count(Registry) - 1
                    /\ w \notin DOMAIN once.websocket_users
                    /\ DOMAIN once.websocket_users
                           = DOMAIN websocket_users \ {w}
           /\ get_connection_count(twice) = get_connection_count(once)

\* one websocket is registered and lowers the count when disconnected, and
\* another, whose endpoint has ended, has been disconnected already
C20_Witness ==
    \E w, x \in WebSockets :
        /\ w \in DOMAIN websocket_users
        /\ get_connection_count(Registry) = 1
        /\ get_connection_count(disconnect(Registry, w)) = 0
        /\ endpoints[x] = "closed"
        /\ x \notin DOMAIN websocket_users
        /\ disconnect(Registry, x) = Registry

\* the users that have a websocket which is registered and whose endpoint is
\* in its receive loop
UsersWithLiveChannel ==
    {u \in UserIds :
        \E w \in DOMAIN websocket_users :
            websocket_users[w] = u /\ endpoints[w] = "open"}

\* C21: no user is mapped to an empty set of websockets, and
\* get_connected_users returns the users that have a live websocket, no more
\* and no fewer.
C21_NoEmptyChannelSet ==
    /\ \A u \in DOMAIN active_connections : active_connections[u] # {}
    /\ get_connected_users(Registry) = UsersWithLiveChannel

\* a websocket has been disconnected at the end of its endpoint, and the one
\* user that still has a websocket is the one get_connected_users returns
C21_Witness ==
    \E w, x \in WebSockets :
        /\ endpoints[w] = "closed"
        /\ w \notin DOMAIN websocket_users
        /\ x \in DOMAIN websocket_users
        /\ get_connected_users(Registry) = {websocket_users[x]}
        /\ get_connection_count(Registry) = 1

\* C22: send_message_to_user for a user that has no registered websocket
\* returns at once without raising, calls send_text on no websocket and
\* leaves both dicts as they were.
C22_SendToAbsentUserIsNoOp ==
    [][(/\ call.pc = "idle"
        /\ call'.op = "send_message_to_user"
        /\ ChannelsOf(Registry, call'.user_id) = {})
          => /\ call'.pc = "returned"
             /\ \A w \in WebSockets : call'.attempts[w] = 0
             /\ call'.delivered = {}
             /\ call'.disconnected_websockets = {}
             /\ active_connections' = active_connections
             /\ websocket_users' = websocket_users]_vars

\* a send to a user without websockets has returned while another user has
\* one, which got nothing
C22_Witness ==
    /\ call.op = "send_message_to_user"
    /\ call.pc = "returned"
    /\ call.user_id \notin DOMAIN active_connections
    /\ \A w \in WebSockets : call.attempts[w] = 0
    /\ \E w \in DOMAIN websocket_users :
          /\ websocket_users[w] # call.user_id
          /\ w \in active_connections[websocket_users[w]]

\* C29: a websocket is in active_connections[u] exactly when websocket_users
\* maps it to u, so a websocket belongs to at most one user, and
\* get_connection_count is the number of entries of websocket_users.
C29_RegistryMapsAgree ==
    /\ \A u \in UserIds, w \in WebSockets :
          (u \in DOMAIN active_connections /\ w \in active_connections[u])
              <=> (w \in DOMAIN websocket_users /\ websocket_users[w] = u)
    /\ \A u, v \in DOMAIN active_connections :
          u # v => active_connections[u] \cap active_connections[v] = {}
    /\ get_connection_count(Registry) = Cardinality(DOMAIN websocket_users)

\* two users hold one websocket each, and a send operation that delivered
\* has returned
C29_Witness ==
    /\ Cardinality(DOMAIN active_connections) = 2
    /\ get_connection_count(Registry) = 2
    /\ call.pc = "returned"
    /\ call.delivered # {}

\* C25: with connects and disconnects interleaved at the awaits of a send
\* operation, neither send_message_to_user nor broadcast_to_all raises, and
\* when either returns it has called send_text on every websocket that was
\* registered from its start to its return.
C25_IterationIsIsolated ==
    [][/\ call'.pc # "raised"
       /\ (call.pc = "send" /\ call'.pc = "returned")
             => \A w \in call'.registered \cap DOMAIN websocket_users :
                    call'.attempts[w] >= 1]_vars

\* every send_text of the stretch that just ran was on its own websocket
OnOwnWebSocket(p) ==
    \A i \in 1..Len(p.sends) : p.sends[i].websocket = p.websocket

\* C23: a turn of the receive loop that gets a JSON object answers on its own
\* websocket only: a ping with one pong that carries the ping's timestamp, a
\* subscribe_ticket that has a ticket id with one subscription_confirmed
\* that carries the id, a message of another type with nothing; and when no
\* send raised both dicts are as they were.
C23_ClientMessageReplies ==
    [][(personal'.op = "receive_text" /\ personal'.request.json = "object")
          => LET m == personal'.request.message
                 sends == personal'.sends
             IN /\ OnOwnWebSocket(personal')
                /\ m.type = "ping"
                      => /\ Len(sends) = 1
                         /\ sends[1].message.type = "pong"
                         /\ sends[1].message.timestamp = m.timestamp
                /\ (m.type = "subscribe_ticket" /\ m.ticket_id # NoTicketId)
                      => /\ Len(sends) = 1
                         /\ sends[1].message.type = "subscription_confirmed"
                         /\ sends[1].message.ticket_id = m.ticket_id
                /\ m.type \notin {"ping", "subscribe_ticket"}
                      => sends = <<>>
                /\ (\A i \in 1..Len(sends) : sends[i].sent)
                      => /\ active_connections' = active_connections
                         /\ websocket_users' = websocket_users]_vars

Unregistered(w) ==
    /\ w \notin DOMAIN websocket_users
    /\ \A u \in DOMAIN active_connections : w \notin active_connections[u]

\* C30: a websocket whose receive loop has ended is in neither dict, from the
\* step that ends the loop on; and a connection whose token gives no active
\* user, or whose authentication or accept raises, is closed with nothing
\* written to the dicts and nothing sent, and its websocket is in neither
\* dict afterwards.
C30_EndpointCleansUp ==
    [][/\ \A w \in WebSockets :
             endpoints'[w] \in {"closed", "rejected"} => Unregistered(w)'
       /\ (personal'.op = "websocket_endpoint" /\ ~personal'.registered)
             => /\ endpoints'[personal'.websocket] = "rejected"
                /\ personal'.sends = <<>>
                /\ active_connections' = active_connections
                /\ websocket_users' = websocket_users]_vars

\* one connection was rejected, and the websocket of another is in neither
\* dict after its receive loop ended
C30_Witness ==
    \E w, x \in WebSockets :
        /\ endpoints[w] = "rejected"
        /\ endpoints[x] = "closed"
        /\ Unregistered(w)
        /\ Unregistered(x)

\* C28: no step removes or changes an audit entry: the log after a step
\* starts with the log before it.
C28_AuditIsAppendOnly ==
    [][/\ Len(audit_logs') >= Len(audit_logs)
       /\ SubSeq(audit_logs', 1, Len(audit_logs)) = audit_logs]_vars

\* a ticket was deleted after a run of it had written its two entries, which
\* are in the log
C28_Witness ==
    \E t \in TicketIds, j \in JobIds :
        /\ tickets[t].deleted
        /\ jobs[j].ticket_id = t
        /\ jobs[j].pc = "done"
        /\ Len(EntriesOf(j)) = 2
        /\ \A i \in 1..2 : EntriesOf(j)[i].entity_id = t

\* C27: the commit of a successful run records on the ticket the model and
\* the token count that the handler of the run returned.
C27_UsageIsTheHandlers ==
    [][\A j \in JobIds :
          (jobs[j].pc = "commit_completed" /\ jobs'[j].pc = "audit_completed")
              => /\ tickets'[jobs[j].ticket_id].ai_model_used
                        = jobs[j].model_used
                 /\ tickets'[jobs[j].ticket_id].tokens_used
                        = jobs[j].tokens_used]_vars

\* C26: when the failure of a run that found its ticket leaves
\* process_ticket_async, the run has committed FAILED with the failure's
\* text and has appended its processing_failed entry after that; the task
\* then ends by raising, and no step of a run queues a job.
C26_FailedThenAuditedThenRaised ==
    [][\A j \in JobIds :
          /\ (jobs[j].pc = "commit_failed" /\ jobs'[j].pc = "audit_failed")
                => /\ tickets'[jobs[j].ticket_id].status = FAILED
                   /\ tickets'[jobs[j].ticket_id].error_message = jobs[j].err
                   /\ audit_logs' = audit_logs
          /\ (/\ jobs[j].pc \notin {"mark_failed", "done"}
              /\ jobs'[j].pc = "mark_failed"
              /\ jobs'[j].found)
                => /\ jobs'[j].committed = FAILED
                   /\ jobs'[j].stored = jobs'[j].err
                   /\ Len(EntriesOf(j)') > 0
                   /\ EntriesOf(j)'[Len(EntriesOf(j)')].action
                          = "ai_processing_failed"
          /\ (jobs[j].pc = "mark_failed" /\ jobs'[j].pc = "done")
                => jobs'[j].outcome = "raised"
          /\ (jobs[j].pc \notin {"free", "done"} /\ jobs'[j].pc # jobs[j].pc)
                => \A k \in JobIds : jobs[k].pc = "free" => jobs'[k].pc = "free"]_vars

====
